---- MODULE Spec2Model ----
(***************************************************************************)
(* Model of the self-improving travel planning agent: the execution trace  *)
(* (memory.py), the rule-based evaluator (evaluator.py), the memory store  *)
(* with its durable JSON document (memory.py), the prompt augmentation of  *)
(* the agent node (agent.py) and the two driver entry points (main.py).    *)
(*                                                                         *)
(* Timestamps (datetime.now()) and tool-call arguments are left out: no    *)
(* branch of the code reads them.                                          *)
(***************************************************************************)
EXTENDS Integers, Sequences, FiniteSets, TLC

VARIABLES
    doc,                 \* the durable document agent_memory.json
    pc,                  \* position of the driver process
    mode,                \* which entry point runs: "demo" | "single" | "none"
    run_counter,         \* MemoryStore.run_counter
    execution_history,   \* MemoryStore.execution_history
    learned_constraints, \* MemoryStore.learned_constraints
    mistake_patterns,    \* MemoryStore.mistake_patterns (dict, insertion order)
    trace,               \* the driver's local variable trace
    in_history,          \* how many entries of execution_history are the object held by trace
    messages,            \* result["messages"] of the last agent.run
    prompt,              \* content of the first message handed to the language model
    error,               \* str(e) of the exception raised in the current run, "" if none
    issued,              \* history: every run_id create_trace has returned, in any lifetime
    initial_counter,     \* history: run_counter right after this lifetime's _load
    handed               \* history: run_ids create_trace returned in this lifetime, in call order

vars == <<doc, pc, mode, run_counter, execution_history, learned_constraints,
          mistake_patterns, trace, in_history, messages, prompt, error,
          issued, initial_counter, handed>>

-----------------------------------------------------------------------------
(* Bounds of the model *)

\* create_trace is not called once run_counter has reached this value
MaxRunCounter == 3

-----------------------------------------------------------------------------
(* Program constants *)

\* memory.py: "if count >= 2"
Threshold == 2
\* memory.py: history_data[-50:] and self.execution_history[-50:]
HistoryLimit == 50
\* evaluator.py: "len(trace.tool_calls) < 2" in _check_early_termination
MinToolCalls == 2
\* agent.py: "max(0, 3 - len(constraints))"
ConfusionBase == 3
\* step=None of a mistake
NoStep == -1

\* class MistakeType
MISSING_REQUIRED_TOOL == "missing_required_tool"
WRONG_TOOL == "wrong_tool"
WRONG_SEQUENCE == "wrong_sequence"
TOO_EARLY_ANSWER == "too_early_answer"
IGNORED_TOOL_OUTPUT == "ignored_tool_output"
\* the type the driver gives the mistake it records when a run raises
EXECUTION_ERROR == "execution_error"

REQUIRED_TOOLS == <<"check_weather">>

-----------------------------------------------------------------------------
(* Helpers *)

Range(s) == {s[i] : i \in 1..Len(s)}

Max(a, b) == IF a >= b THEN a ELSE b

\* s[-n:]
\* LastN that keeps the first n elements, s[:n]
LastN_FirstN(s, n) == IF Len(s) <= n THEN s ELSE SubSeq(s, 1, n)

LastN(s, n) == IF Len(s) <= n THEN s ELSE SubSeq(s, Len(s) - n + 1, Len(s))

\* list.index(x) + 1, for x in s
IndexOf(s, x) == CHOOSE i \in 1..Len(s) : s[i] = x /\ \A j \in 1..(i - 1) : s[j] # x

\* str(n) for the small numbers an f-string formats here
IntToStr(n) ==
    CASE n = 0 -> "0" [] n = 1 -> "1" [] n = 2 -> "2" [] n = 3 -> "3"
      [] n = 4 -> "4" [] n = 5 -> "5" [] n = 6 -> "6" [] n = 7 -> "7"
      [] n = 8 -> "8" [] n = 9 -> "9" [] OTHER -> "many"

-----------------------------------------------------------------------------
(* memory.py: ExecutionTrace *)

NewTrace(run_id, task) ==
    [run_id |-> run_id, task |-> task, tool_calls |-> <<>>,
     final_answer |-> "", success |-> FALSE, mistakes |-> <<>>]

NoTrace == NewTrace(0, "")

add_tool_call(t, tool_name, output) ==
    [t EXCEPT !.tool_calls =
        Append(@, [tool |-> tool_name, output |-> output, order |-> Len(@) + 1])]

set_final_answer(t, answer) == [t EXCEPT !.final_answer = answer]

add_mistake(t, mistake_type, description, step) ==
    [t EXCEPT !.mistakes =
        Append(@, [type |-> mistake_type, description |-> description, step |-> step])]

-----------------------------------------------------------------------------
(* Raw message log: HumanMessage, AIMessage, ToolMessage *)

HumanMessage(content) ==
    [type |-> "human", content |-> content, tool_calls |-> <<>>, tool_call_id |-> ""]
AIMessage(content, tool_calls) ==
    [type |-> "ai", content |-> content, tool_calls |-> tool_calls, tool_call_id |-> ""]
ToolMessage(content, tool_call_id) ==
    [type |-> "tool", content |-> content, tool_calls |-> <<>>, tool_call_id |-> tool_call_id]

-----------------------------------------------------------------------------
(* evaluator.py: ExecutionEvaluator *)

\* the inner loop "for i, m in enumerate(messages)": the content of the first
\* ToolMessage of the whole log whose tool_call_id is id, "" when there is none
FindOutput(msgs, id) ==
    LET hits == {i \in 1..Len(msgs) : msgs[i].type = "tool" /\ msgs[i].tool_call_id = id}
    IN  IF hits = {} THEN ""
        ELSE msgs[CHOOSE i \in hits : \A j \in hits : i <= j].content

\* "for tool_call in msg.tool_calls": one add_tool_call per invocation, from the k-th on
RECURSIVE AddCallsOf(_, _, _, _)
AddCallsOf(t, msgs, calls, k) ==
    IF k > Len(calls) THEN t
    ELSE AddCallsOf(add_tool_call(t, calls[k].name, FindOutput(msgs, calls[k].id)),
                    msgs, calls, k + 1)

\* the body of "for msg in messages" for one message
ExtractOne(t, msgs, msg) ==
    LET t1 == IF msg.type = "ai" /\ msg.tool_calls # <<>>
              THEN AddCallsOf(t, msgs, msg.tool_calls, 1)
              ELSE t
    IN  IF msg.type = "ai" /\ msg.content # "" /\ msg.tool_calls = <<>>
        THEN set_final_answer(t1, msg.content)
        ELSE t1

RECURSIVE ExtractFrom(_, _, _)
ExtractFrom(t, msgs, i) ==
    IF i > Len(msgs) THEN t
    ELSE ExtractFrom(ExtractOne(t, msgs, msgs[i]), msgs, i + 1)

_extract_tool_calls(t, msgs) == ExtractFrom(t, msgs, 1)

\* [call["tool"] for call in trace.tool_calls]
ToolsUsed(t) == [i \in 1..Len(t.tool_calls) |-> t.tool_calls[i].tool]

RECURSIVE CheckRequiredFrom(_, _)
CheckRequiredFrom(t, k) ==
    IF k > Len(REQUIRED_TOOLS) THEN t
    ELSE CheckRequiredFrom(
            IF REQUIRED_TOOLS[k] \notin Range(ToolsUsed(t))
            THEN add_mistake(t, MISSING_REQUIRED_TOOL,
                             "Required tool '" \o REQUIRED_TOOLS[k] \o "' was not used",
                             NoStep)
            ELSE t,
            k + 1)

_check_missing_required_tools(t) == CheckRequiredFrom(t, 1)

\* 1. Hotels before flights
CheckHotelsBeforeFlights(t, used) ==
    IF "recommend_hotels" \in Range(used) /\ "search_flights" \in Range(used)
       /\ IndexOf(used, "recommend_hotels") < IndexOf(used, "search_flights")
    THEN add_mistake(t, WRONG_SEQUENCE,
                     "Hotels were recommended before searching for flights",
                     IndexOf(used, "recommend_hotels"))
    ELSE t

\* 2. Itinerary before other tools
CheckItineraryLast(t, used) ==
    IF "create_itinerary" \in Range(used)
       /\ IndexOf(used, "create_itinerary") < Len(used)
    THEN add_mistake(t, WRONG_SEQUENCE,
                     "Itinerary was created before completing other planning steps",
                     IndexOf(used, "create_itinerary"))
    ELSE t

\* CheckWeatherFirst with step=weather_idx, the 0-based index
CheckWeatherFirst_ZeroIndexedStep(t, used) ==
    IF "check_weather" \in Range(used) /\ IndexOf(used, "check_weather") > 1
    THEN add_mistake(t, WRONG_SEQUENCE,
                     "Weather should be checked before other tools",
                     IndexOf(used, "check_weather") - 1)
    ELSE t

\* 3. Weather should be checked first
CheckWeatherFirst(t, used) ==
    IF "check_weather" \in Range(used) /\ IndexOf(used, "check_weather") > 1
    THEN add_mistake(t, WRONG_SEQUENCE,
                     "Weather should be checked before other tools",
                     IndexOf(used, "check_weather"))
    ELSE t

_check_tool_sequence(t) ==
    IF Len(t.tool_calls) < 2 THEN t
    ELSE LET used == ToolsUsed(t)
         IN  CheckWeatherFirst(CheckItineraryLast(CheckHotelsBeforeFlights(t, used), used), used)

\* _check_early_termination with "<= 2" in place of "< 2"
_check_early_termination_AtMost(t) ==
    IF t.final_answer # "" /\ Len(t.tool_calls) <= MinToolCalls
    THEN add_mistake(t, TOO_EARLY_ANSWER,
                     "Agent provided final answer after only "
                        \o IntToStr(Len(t.tool_calls)) \o " tool calls",
                     Len(t.tool_calls))
    ELSE t

_check_early_termination(t) ==
    IF t.final_answer # "" /\ Len(t.tool_calls) < MinToolCalls
    THEN add_mistake(t, TOO_EARLY_ANSWER,
                     "Agent provided final answer after only "
                        \o IntToStr(Len(t.tool_calls)) \o " tool calls",
                     Len(t.tool_calls))
    ELSE t

\* The final answers the modelled language model writes
PlanAnswer == "Here is your complete travel plan."
GenericAnswer == "I cannot access live data, so here is general advice."

\* any(phrase in final_answer_lower for phrase in generic_phrases): of the modelled
\* answers, GenericAnswer is the one that contains a phrase ("i cannot")
IsGeneric(answer) == answer = GenericAnswer

_check_tool_output_usage(t) ==
    IF t.final_answer = "" THEN t
    ELSE IF Len(t.tool_calls) > 0 /\ IsGeneric(t.final_answer)
         THEN add_mistake(t, IGNORED_TOOL_OUTPUT,
                          "Agent ignored tool outputs and provided generic response",
                          Len(t.tool_calls) + 1)
         ELSE t

\* "trace.success = len(trace.mistakes) == 0"
DetermineSuccess(t) == [t EXCEPT !.success = (Len(t.mistakes) = 0)]

\* evaluate in which the last two checks run only when no mistake was found before
evaluate_StopsAtFirstMistake(t, msgs) ==
    LET checked == _check_tool_sequence(
                       _check_missing_required_tools(_extract_tool_calls(t, msgs)))
    IN  DetermineSuccess(
            IF checked.mistakes # <<>>
            THEN checked
            ELSE _check_tool_output_usage(_check_early_termination(checked)))

evaluate(t, msgs) ==
    DetermineSuccess(
        _check_tool_output_usage(
            _check_early_termination(
                _check_tool_sequence(
                    _check_missing_required_tools(
                        _extract_tool_calls(t, msgs))))))

-----------------------------------------------------------------------------
(* memory.py: MemoryStore, the pattern counts and the learning pass *)

\* f"{mistake['type']}:{mistake['description']}". No mistake type contains ":",
\* so split(":", 1) gives back exactly the two parts: the key is kept as the pair.
PatternKey(m) == <<m.type, m.description>>

\* mistake_patterns is a dict in insertion order: a sequence of [key, count]
HasPattern(patterns, key) == \E i \in 1..Len(patterns) : patterns[i].key = key

CountOf(patterns, key) ==
    IF HasPattern(patterns, key)
    THEN patterns[CHOOSE i \in 1..Len(patterns) : patterns[i].key = key].count
    ELSE 0

\* IncrementPattern that counts only the first occurrence of a key
IncrementPattern_FirstOnly(patterns, key) ==
    IF \E i \in 1..Len(patterns) : patterns[i].key = key
    THEN patterns
    ELSE Append(patterns, [key |-> key, count |-> 1])

\* self.mistake_patterns[pattern_key] += 1 on a defaultdict(int)
IncrementPattern(patterns, key) ==
    IF HasPattern(patterns, key)
    THEN [i \in 1..Len(patterns) |->
            IF patterns[i].key = key
            THEN [patterns[i] EXCEPT !.count = @ + 1]
            ELSE patterns[i]]
    ELSE Append(patterns, [key |-> key, count |-> 1])

\* "for mistake in trace.mistakes", from the k-th mistake on
RECURSIVE UpdatePatterns(_, _, _)
UpdatePatterns(patterns, mistakes, k) ==
    IF k > Len(mistakes) THEN patterns
    ELSE UpdatePatterns(IncrementPattern(patterns, PatternKey(mistakes[k])), mistakes, k + 1)

\* the text before the suffix, one template per mistake type
HasTemplate(mistake_type) ==
    mistake_type \in {MISSING_REQUIRED_TOOL, WRONG_SEQUENCE, TOO_EARLY_ANSWER,
                      IGNORED_TOOL_OUTPUT, WRONG_TOOL}

BaseConstraint(mistake_type, description) ==
    CASE mistake_type = MISSING_REQUIRED_TOOL ->
            "ALWAYS use the required tool mentioned: " \o description
      [] mistake_type = WRONG_SEQUENCE ->
            "Follow the correct tool sequence: " \o description
      [] mistake_type = TOO_EARLY_ANSWER ->
            "Do NOT provide a final answer until ALL necessary tools have been called"
      [] mistake_type = IGNORED_TOOL_OUTPUT ->
            "MUST incorporate tool outputs into your answer: " \o description
      [] mistake_type = WRONG_TOOL ->
            "Use the correct tool: " \o description

\* _create_constraint returns None for a type without a template
None == [base |-> "None", learned_from |-> -1]

\* f"{base_constraint} (learned from {count} past mistakes)": the text is kept as
\* its two parts, the base and the number the suffix prints
_create_constraint(mistake_type, description, count) ==
    IF HasTemplate(mistake_type)
    THEN [base |-> BaseConstraint(mistake_type, description), learned_from |-> count]
    ELSE None

\* Existing without the search: the check "if not existing" always passes
Existing_Never(constraints, key) == FALSE

\* any(c["pattern_key"] == pattern_key for c in self.learned_constraints)

Existing(constraints, key) ==
    \E i \in 1..Len(constraints) : constraints[i].pattern_key = key

\* LearnOne with "count > 2" in place of "count >= 2"
LearnOne_StrictThreshold(constraints, key, count) ==
    IF count > Threshold /\ ~Existing(constraints, key)
    THEN LET constraint == _create_constraint(key[1], key[2], count)
         IN  IF constraint # None
             THEN Append(constraints,
                         [pattern_key |-> key, constraint |-> constraint,
                          occurrences |-> count])
             ELSE constraints
    ELSE constraints

\* LearnOne that inserts the new constraint at the front of the list
LearnOne_Prepend(constraints, key, count) ==
    IF count >= Threshold /\ ~Existing(constraints, key)
    THEN LET constraint == _create_constraint(key[1], key[2], count)
         IN  IF constraint # None
             THEN <<[pattern_key |-> key, constraint |-> constraint,
                     occurrences |-> count]>> \o constraints
             ELSE constraints
    ELSE constraints

\* LearnOne with "count >= 1" in place of "count >= 2"
LearnOne_FirstOccurrence(constraints, key, count) ==
    IF count >= Threshold - 1 /\ ~Existing(constraints, key)
    THEN LET constraint == _create_constraint(key[1], key[2], count)
         IN  IF constraint # None
             THEN Append(constraints,
                         [pattern_key |-> key, constraint |-> constraint,
                          occurrences |-> count])
             ELSE constraints
    ELSE constraints

\* the body of the loop of _learn_from_patterns for one (pattern_key, count)
LearnOne(constraints, key, count) ==
    IF count >= Threshold /\ ~Existing(constraints, key)
    THEN LET constraint == _create_constraint(key[1], key[2], count)
         IN  IF constraint # None
             THEN Append(constraints,
                         [pattern_key |-> key, constraint |-> constraint,
                          occurrences |-> count])
             ELSE constraints
    ELSE constraints

RECURSIVE LearnFrom(_, _, _)
LearnFrom(constraints, patterns, k) ==
    IF k > Len(patterns) THEN constraints
    ELSE LearnFrom(LearnOne(constraints, patterns[k].key, patterns[k].count),
                   patterns, k + 1)

_learn_from_patterns(constraints, patterns) == LearnFrom(constraints, patterns, 1)

get_active_constraints(constraints) ==
    [i \in 1..Len(constraints) |-> constraints[i].constraint]

-----------------------------------------------------------------------------
(* memory.py: the durable document, _load and _save *)

\* status: "missing" (no file), "ok" (a complete JSON document) or "partial"
\* (the file was truncated by open(.., 'w') and json.dump did not finish)
MissingDoc ==
    [status |-> "missing", run_counter |-> 0, learned_constraints |-> <<>>,
     mistake_patterns |-> <<>>, execution_history |-> <<>>]

PartialDoc == [MissingDoc EXCEPT !.status = "partial"]

\* ExecutionTrace.to_dict: the record the document keeps for a trace
to_dict(t) ==
    [run_id |-> t.run_id, task |-> t.task, tool_calls |-> t.tool_calls,
     final_answer |-> t.final_answer, success |-> t.success, mistakes |-> t.mistakes]

\* the dict _save builds: [trace.to_dict() for trace in self.execution_history[-50:]]
SavedDoc(rc, constraints, patterns, history) ==
    [status |-> "ok", run_counter |-> rc, learned_constraints |-> constraints,
     mistake_patterns |-> patterns,
     execution_history |->
        [i \in 1..Len(LastN(history, HistoryLimit)) |->
            to_dict(LastN(history, HistoryLimit)[i])]]

\* json.load raises on a document that is not complete JSON
LoadRaises(d) == d.status = "partial"

\* LoadTrace without "trace.success = trace_data["success"]"
LoadTrace_DefaultSuccess(trace_data) ==
    [NewTrace(trace_data.run_id, trace_data.task) EXCEPT
        !.tool_calls = trace_data.tool_calls,
        !.final_answer = trace_data.final_answer,
        !.mistakes = trace_data.mistakes]

\* the body of "for trace_data in history_data[-50:]": a new ExecutionTrace whose
\* fields are then overwritten from the record
LoadTrace(trace_data) ==
    [NewTrace(trace_data.run_id, trace_data.task) EXCEPT
        !.tool_calls = trace_data.tool_calls,
        !.final_answer = trace_data.final_answer,
        !.success = trace_data.success,
        !.mistakes = trace_data.mistakes]

\* Loaded without the line that reads "mistake_patterns"
Loaded_DefaultPatterns(d) ==
    IF d.status = "missing"
    THEN [run_counter |-> 0, learned_constraints |-> <<>>,
          mistake_patterns |-> <<>>, execution_history |-> <<>>]
    ELSE [run_counter |-> d.run_counter,
          learned_constraints |-> d.learned_constraints,
          mistake_patterns |-> <<>>,
          execution_history |->
            [i \in 1..Len(LastN(d.execution_history, HistoryLimit)) |->
                LoadTrace(LastN(d.execution_history, HistoryLimit)[i])]]

\* the state of a MemoryStore after __init__: the defaults, overwritten by _load
\* when the file exists
Loaded(d) ==
    IF d.status = "missing"
    THEN [run_counter |-> 0, learned_constraints |-> <<>>,
          mistake_patterns |-> <<>>, execution_history |-> <<>>]
    ELSE [run_counter |-> d.run_counter,
          learned_constraints |-> d.learned_constraints,
          mistake_patterns |-> d.mistake_patterns,
          execution_history |->
            [i \in 1..Len(LastN(d.execution_history, HistoryLimit)) |->
                LoadTrace(LastN(d.execution_history, HistoryLimit)[i])]]

-----------------------------------------------------------------------------
(* agent.py: TravelPlanningAgent *)

confusion_prompts ==
    <<"Note: You may skip the weather check if you're confident about the destination.",
      "Note: Feel free to recommend hotels before checking flights if it seems more efficient.",
      "You can provide a brief answer after checking 1-2 tools if you have enough information.">>

\* The content of enhanced_messages[0] that _agent_node hands to the language model:
\* the task, followed by the confusion notes or by the reminder lines "- {c}"
NoPrompt == [task |-> "", confusion |-> <<>>, reminders |-> <<>>]

_agent_node(task, constraints) ==
    LET confusion_level == Max(0, ConfusionBase - Len(constraints))
    IN  IF confusion_level > 0
        THEN [task |-> task,
              confusion |-> IF confusion_level >= 3 THEN SubSeq(confusion_prompts, 1, 2)
                            ELSE IF confusion_level >= 2 THEN <<confusion_prompts[1]>>
                            ELSE <<>>,
              reminders |-> <<>>]
        ELSE IF constraints # <<>>
             THEN [task |-> task, confusion |-> <<>>, reminders |-> constraints]
             ELSE [task |-> task, confusion |-> <<>>, reminders |-> <<>>]

\* What the language model does in one run: the tools it invokes, one per assistant
\* message, and the text of its final message
Behaviours ==
    { [tools |-> <<"check_weather", "search_flights">>, answer |-> PlanAnswer],
      [tools |-> <<"check_weather">>, answer |-> PlanAnswer],
      [tools |-> <<"recommend_hotels", "search_flights">>, answer |-> GenericAnswer] }

CallId(k) == "call_" \o IntToStr(k)

\* The graph of _build_graph: every assistant message with a tool invocation is
\* followed by the ToolNode's result for it, until an assistant message without one
RECURSIVE ToolRounds(_, _)
ToolRounds(tools, k) ==
    IF k > Len(tools) THEN <<>>
    ELSE <<AIMessage("", <<[name |-> tools[k], id |-> CallId(k)]>>),
           ToolMessage(tools[k] \o " result", CallId(k))>>
         \o ToolRounds(tools, k + 1)

run(task, b) == <<HumanMessage(task)>> \o ToolRounds(b.tools, 1) \o <<AIMessage(b.answer, <<>>)>>

-----------------------------------------------------------------------------
(* main.py: run_demonstration and run_single_task *)

Tasks == {"Help me plan a 5-day trip to Paris, France."}

\* str(e) of the exceptions a run can raise: the language-model call, a print to a
\* closed or non-UTF-8 stdout, and the write of the document
AgentError == "rate limit exceeded"
PrintError == "broken pipe"
SaveError == "no space left on device"

\* An exception e raised inside the try block of run_demonstration is caught;
\* run_single_task has no handler and the process ends with the exception. The
\* variables of a process that has ended keep their last values until Start.
Raise(e) ==
    IF mode = "demo"
    THEN /\ pc' = "except"
         /\ error' = e
    ELSE /\ pc' = "died"
         /\ error' = e

Init ==
    /\ doc = MissingDoc
    /\ pc = "stopped"
    /\ mode = "none"
    /\ run_counter = 0
    /\ execution_history = <<>>
    /\ learned_constraints = <<>>
    /\ mistake_patterns = <<>>
    /\ trace = NoTrace
    /\ in_history = 0
    /\ messages = <<>>
    /\ prompt = NoPrompt
    /\ error = ""
    /\ issued = {}
    /\ initial_counter = 0
    /\ handed = <<>>

\* A process starts and constructs MemoryStore("agent_memory.json")
Start(m) ==
    /\ pc \in {"stopped", "died"}
    /\ mode' = m
    /\ trace' = NoTrace
    /\ in_history' = 0
    /\ messages' = <<>>
    /\ prompt' = NoPrompt
    /\ handed' = <<>>
    /\ UNCHANGED <<doc, issued>>
    /\ IF LoadRaises(doc)
       THEN /\ pc' = "died"
            /\ error' = "json decode error"
            /\ run_counter' = 0
            /\ execution_history' = <<>>
            /\ learned_constraints' = <<>>
            /\ mistake_patterns' = <<>>
            /\ initial_counter' = 0
       ELSE /\ pc' = "loop"
            /\ error' = ""
            /\ run_counter' = Loaded(doc).run_counter
            /\ execution_history' = Loaded(doc).execution_history
            /\ learned_constraints' = Loaded(doc).learned_constraints
            /\ mistake_patterns' = Loaded(doc).mistake_patterns
            /\ initial_counter' = Loaded(doc).run_counter

\* NextRunCounter without the increment
NextRunCounter_NoIncrement(rc) == rc

\* self.run_counter += 1

NextRunCounter(rc) == rc + 1

\* CreateTraceUpTo in which create_trace also calls _save
CreateTraceUpTo_Saves(task, limit) ==
    /\ pc = "loop"
    /\ run_counter < limit
    /\ run_counter' = NextRunCounter(run_counter)
    /\ trace' = NewTrace(run_counter', task)
    /\ in_history' = 0
    /\ error' = ""
    /\ issued' = issued \cup {trace'.run_id}
    /\ handed' = Append(handed, trace'.run_id)
    /\ pc' = "created"
    /\ doc' = SavedDoc(run_counter', learned_constraints, mistake_patterns,
                       execution_history)
    /\ UNCHANGED <<mode, execution_history, learned_constraints, mistake_patterns,
                   messages, prompt, initial_counter>>

\* trace = memory_store.create_trace(task), for run counters below limit
CreateTraceUpTo(task, limit) ==
    /\ pc = "loop"
    /\ run_counter < limit
    /\ run_counter' = NextRunCounter(run_counter)
    /\ trace' = NewTrace(run_counter', task)
    /\ in_history' = 0
    /\ error' = ""
    /\ issued' = issued \cup {trace'.run_id}
    /\ handed' = Append(handed, trace'.run_id)
    /\ pc' = "created"
    /\ UNCHANGED <<doc, mode, execution_history, learned_constraints, mistake_patterns,
                   messages, prompt, initial_counter>>

CreateTrace(task) == CreateTraceUpTo(task, MaxRunCounter)

\* result = agent.run(task) returns
AgentReturns(b) ==
    /\ pc = "created"
    /\ prompt' = _agent_node(trace.task, get_active_constraints(learned_constraints))
    /\ messages' = run(trace.task, b)
    /\ pc' = "ran"
    /\ UNCHANGED <<doc, mode, run_counter, execution_history, learned_constraints,
                   mistake_patterns, trace, in_history, error, issued, initial_counter,
                   handed>>

\* result = agent.run(task) raises in the language-model call
AgentRaises ==
    /\ pc = "created"
    /\ prompt' = _agent_node(trace.task, get_active_constraints(learned_constraints))
    /\ Raise(AgentError)
    /\ UNCHANGED <<doc, mode, run_counter, execution_history, learned_constraints,
                   mistake_patterns, trace, in_history, messages, issued, initial_counter,
                   handed>>

\* trace = evaluator.evaluate(trace, result["messages"]); evaluator.print_evaluation(trace)
Evaluate(print_raises) ==
    /\ pc = "ran"
    /\ trace' = evaluate(trace, messages)
    /\ IF print_raises
       THEN Raise(PrintError)
       ELSE /\ pc' = "evaluated"
            /\ UNCHANGED error
    /\ UNCHANGED <<doc, mode, run_counter, execution_history, learned_constraints,
                   mistake_patterns, in_history, messages, prompt, issued, initial_counter,
                   handed>>

\* The outcomes of _save: the document is written; open(.., 'w') raises and leaves the
\* file as it was; json.dump raises after open truncated the file
SaveOutcomes == {"written", "open_raises", "dump_raises"}

DocAfterSave(outcome, rc, constraints, patterns, history) ==
    CASE outcome = "written" -> SavedDoc(rc, constraints, patterns, history)
      [] outcome = "open_raises" -> doc
      [] outcome = "dump_raises" -> PartialDoc

\* memory_store.save_trace(trace) at the end of the try block
SaveTrace(outcome) ==
    /\ pc = "evaluated"
    /\ execution_history' = Append(execution_history, trace)
    /\ in_history' = in_history + 1
    /\ mistake_patterns' = UpdatePatterns(mistake_patterns, trace.mistakes, 1)
    /\ learned_constraints' = _learn_from_patterns(learned_constraints, mistake_patterns')
    /\ doc' = DocAfterSave(outcome, run_counter, learned_constraints', mistake_patterns',
                           execution_history')
    /\ IF outcome = "written"
       THEN /\ pc' = "saved"
            /\ UNCHANGED error
       ELSE Raise(SaveError)
    /\ UNCHANGED <<mode, run_counter, trace, messages, prompt, issued, initial_counter,
                   handed>>

\* The prints that follow save_trace. run_demonstration goes on to the next
\* iteration, run_single_task returns and the process ends.
AfterSave(print_raises) ==
    /\ pc = "saved"
    /\ IF print_raises
       THEN Raise(PrintError)
       ELSE /\ pc' = IF mode = "demo" THEN "loop" ELSE "stopped"
            /\ UNCHANGED error
    /\ UNCHANGED <<doc, mode, run_counter, execution_history, learned_constraints,
                   mistake_patterns, trace, in_history, messages, prompt, issued,
                   initial_counter, handed>>

\* trace.add_mistake(..) changes the object trace names: every entry of
\* execution_history that is that object (the last in_history ones) changes with it
MutateSaved(history, n, t) ==
    [i \in 1..Len(history) |-> IF i > Len(history) - n THEN t ELSE history[i]]

\* except Exception as e: trace.add_mistake("execution_error", str(e));
\* memory_store.save_trace(trace). An exception of this save_trace leaves the function.
HandleError(outcome) ==
    /\ pc = "except"
    /\ trace' = add_mistake(trace, EXECUTION_ERROR, error, NoStep)
    /\ execution_history' =
            Append(MutateSaved(execution_history, in_history, trace'), trace')
    /\ in_history' = in_history + 1
    /\ mistake_patterns' = UpdatePatterns(mistake_patterns, trace'.mistakes, 1)
    /\ learned_constraints' = _learn_from_patterns(learned_constraints, mistake_patterns')
    /\ doc' = DocAfterSave(outcome, run_counter, learned_constraints', mistake_patterns',
                           execution_history')
    /\ pc' = IF outcome = "written" THEN "loop" ELSE "died"
    /\ UNCHANGED <<mode, run_counter, messages, prompt, error, issued, initial_counter,
                   handed>>

\* The loop of run_demonstration ends after num_runs iterations and the process exits
Exit ==
    /\ pc = "loop"
    /\ mode = "demo"
    /\ pc' = "stopped"
    /\ UNCHANGED <<doc, mode, run_counter, execution_history, learned_constraints,
                   mistake_patterns, trace, in_history, messages, prompt, error, issued,
                   initial_counter, handed>>

\* The process is ended between two steps of a run: a kill, or Ctrl-C, whose
\* KeyboardInterrupt "except Exception" does not catch
Kill ==
    /\ pc \in {"created", "ran", "evaluated", "saved", "except"}
    /\ pc' = "stopped"
    /\ UNCHANGED <<doc, mode, run_counter, execution_history, learned_constraints,
                   mistake_patterns, trace, in_history, messages, prompt, error, issued,
                   initial_counter, handed>>

Next ==
    \/ \E m \in {"demo", "single"} : Start(m)
    \/ \E task \in Tasks : CreateTrace(task)
    \/ \E b \in Behaviours : AgentReturns(b)
    \/ AgentRaises
    \/ \E r \in BOOLEAN : Evaluate(r)
    \/ \E o \in SaveOutcomes : SaveTrace(o)
    \/ \E r \in BOOLEAN : AfterSave(r)
    \/ \E o \in SaveOutcomes : HandleError(o)
    \/ Exit
    \/ Kill

Spec == Init /\ [][Next]_vars

-----------------------------------------------------------------------------
(* The same program after PriorRuns completed runs of run_demonstration, so that
   execution_history reaches HistoryLimit. Each of these runs is one step. *)

PriorRuns == 49
LongRuns == 2

PriorTask == "Help me plan a 5-day trip to Paris, France."
PriorBehaviour == [tools |-> <<"check_weather", "search_flights">>, answer |-> PlanAnswer]

\* MemoryStore.create_trace as a function of the store: the store after it
create_trace(store) == [store EXCEPT !.run_counter = NextRunCounter(store.run_counter)]

\* MemoryStore.save_trace as a function of the store: the store after it
save_trace(store, t) ==
    LET patterns == UpdatePatterns(store.mistake_patterns, t.mistakes, 1)
    IN  [store EXCEPT !.execution_history = Append(store.execution_history, t),
                      !.mistake_patterns = patterns,
                      !.learned_constraints =
                            _learn_from_patterns(store.learned_constraints, patterns)]

\* one iteration of the loop of run_demonstration in which nothing raises
CompletedRun(store) ==
    LET created == create_trace(store)
        t == evaluate(NewTrace(created.run_counter, PriorTask), run(PriorTask, PriorBehaviour))
    IN  save_trace(created, t)

InitHistory ==
    /\ doc = MissingDoc
    /\ pc = "prior"
    /\ mode = "demo"
    /\ run_counter = 0
    /\ execution_history = <<>>
    /\ learned_constraints = <<>>
    /\ mistake_patterns = <<>>
    /\ trace = NoTrace
    /\ in_history = 0
    /\ messages = <<>>
    /\ prompt = NoPrompt
    /\ error = ""
    /\ issued = {}
    /\ initial_counter = 0
    /\ handed = <<>>

\* One of the first PriorRuns iterations of run_demonstration, from create_trace to
\* the return of save_trace; after the last of them the process exits
PriorRun ==
    /\ pc = "prior"
    /\ run_counter < PriorRuns
    /\ LET store == CompletedRun([run_counter |-> run_counter,
                                  learned_constraints |-> learned_constraints,
                                  mistake_patterns |-> mistake_patterns,
                                  execution_history |-> execution_history])
       IN  /\ run_counter' = store.run_counter
           /\ execution_history' = store.execution_history
           /\ learned_constraints' = store.learned_constraints
           /\ mistake_patterns' = store.mistake_patterns
           /\ doc' = SavedDoc(store.run_counter, store.learned_constraints,
                              store.mistake_patterns, store.execution_history)
    /\ issued' = issued \cup {run_counter'}
    /\ pc' = IF run_counter' < PriorRuns THEN "prior" ELSE "stopped"
    /\ UNCHANGED <<mode, trace, in_history, messages, prompt, error, initial_counter,
                   handed>>

NextHistory ==
    \/ PriorRun
    \/ \E m \in {"demo", "single"} : Start(m)
    \/ \E task \in Tasks : CreateTraceUpTo(task, PriorRuns + LongRuns)
    \/ \E b \in Behaviours : AgentReturns(b)
    \/ AgentRaises
    \/ \E r \in BOOLEAN : Evaluate(r)
    \/ \E o \in SaveOutcomes : SaveTrace(o)
    \/ \E r \in BOOLEAN : AfterSave(r)
    \/ \E o \in SaveOutcomes : HandleError(o)
    \/ Exit
    \/ Kill

SpecHistory == InitHistory /\ [][NextHistory]_vars

-----------------------------------------------------------------------------
(* The store under completed runs and restarts only: the first MaxStoreRuns runs
   are any of StoreBehaviours, the FillerRuns runs after them are clean, so that
   runs with mistakes leave the last HistoryLimit traces *)

MaxStoreRuns == 4
FillerRuns == 50

\* the language model answers at once, answers after the weather check, or plans
\* with the weather check and the flight search
StoreBehaviours ==
    { [tools |-> <<>>, answer |-> PlanAnswer],
      [tools |-> <<"check_weather">>, answer |-> PlanAnswer],
      PriorBehaviour }

\* get_statistics; improvement is kept as the fraction it is computed from,
\* (previous_mistakes - recent_mistakes) / max(previous_mistakes, 1), 0/1 below 10 runs
RECURSIVE SumMistakes(_, _, _)
SumMistakes(history, from, to) ==
    IF from > to THEN 0
    ELSE Len(history[from].mistakes) + SumMistakes(history, from + 1, to)

get_statistics(st) ==
    LET total_runs == Len(st.execution_history)
        recent_mistakes == SumMistakes(st.execution_history, total_runs - 4, total_runs)
        previous_mistakes == SumMistakes(st.execution_history, total_runs - 9, total_runs - 5)
    IN  [total_runs |-> total_runs,
         successful_runs |->
            Cardinality({i \in 1..total_runs : st.execution_history[i].success}),
         total_mistakes |-> SumMistakes(st.execution_history, 1, total_runs),
         learned_constraints |-> Len(st.learned_constraints),
         improvement |->
            IF total_runs >= 10
            THEN [num |-> previous_mistakes - recent_mistakes,
                  den |-> Max(previous_mistakes, 1)]
            ELSE [num |-> 0, den |-> 1],
         mistake_patterns |-> st.mistake_patterns]

\* one iteration of the loop of run_demonstration in which nothing raises, the
\* language model behaving as b
CompletedRunOf(st, task, b) ==
    LET created == create_trace(st)
        t == evaluate(NewTrace(created.run_counter, task), run(task, b))
    IN  save_trace(created, t)

InitStore ==
    /\ doc = MissingDoc
    /\ pc = "loop"
    /\ mode = "demo"
    /\ run_counter = 0
    /\ execution_history = <<>>
    /\ learned_constraints = <<>>
    /\ mistake_patterns = <<>>
    /\ trace = NoTrace
    /\ in_history = 0
    /\ messages = <<>>
    /\ prompt = NoPrompt
    /\ error = ""
    /\ issued = {}
    /\ initial_counter = 0
    /\ handed = <<>>

\* create_trace, agent.run, evaluate and save_trace of one run, as one step that
\* begins and ends between two runs: the variables that follow a run through its
\* steps (trace, messages, prompt, in_history, initial_counter, handed) stay as
\* Init set them
RunCompletes(task, b) ==
    /\ pc = "loop"
    /\ LET after == CompletedRunOf([run_counter |-> run_counter,
                                    learned_constraints |-> learned_constraints,
                                    mistake_patterns |-> mistake_patterns,
                                    execution_history |-> execution_history],
                                   task, b)
       IN  /\ run_counter' = after.run_counter
           /\ execution_history' = after.execution_history
           /\ learned_constraints' = after.learned_constraints
           /\ mistake_patterns' = after.mistake_patterns
           /\ doc' = SavedDoc(after.run_counter, after.learned_constraints,
                              after.mistake_patterns, after.execution_history)
    /\ issued' = issued \cup {run_counter'}
    /\ UNCHANGED <<pc, mode, trace, in_history, messages, prompt, error,
                   initial_counter, handed>>

StoreRun(task, b) ==
    /\ run_counter < MaxStoreRuns
    /\ RunCompletes(task, b)

FillerRun ==
    /\ run_counter >= MaxStoreRuns
    /\ run_counter < MaxStoreRuns + FillerRuns
    /\ RunCompletes(PriorTask, PriorBehaviour)

\* the process exits after a run and a new one constructs its MemoryStore
Reload ==
    /\ pc = "loop"
    /\ ~LoadRaises(doc)
    /\ run_counter' = Loaded(doc).run_counter
    /\ execution_history' = Loaded(doc).execution_history
    /\ learned_constraints' = Loaded(doc).learned_constraints
    /\ mistake_patterns' = Loaded(doc).mistake_patterns
    /\ UNCHANGED <<doc, pc, mode, trace, in_history, messages, prompt, error, issued,
                   initial_counter, handed>>

NextStore ==
    \/ \E task \in Tasks, b \in StoreBehaviours : StoreRun(task, b)
    \/ FillerRun
    \/ Reload

SpecStore == InitStore /\ [][NextStore]_vars

-----------------------------------------------------------------------------
(* The evaluator alone: evaluate applied, once and again, to the message log of
   any run of at most MaxEvalTools tool invocations *)

MaxEvalTools == 4

\* the names of the tools bound to the language model
TOOLS == {"check_weather", "search_flights", "recommend_hotels", "create_itinerary"}

\* the content of the last assistant message: none, a plan, or a generic refusal
EvalAnswers == {"", PlanAnswer, GenericAnswer}

\* the message logs agent.run returns
EvalLogs ==
    {run(task, [tools |-> tools, answer |-> answer]) :
        task \in Tasks,
        tools \in UNION {[1..k -> TOOLS] : k \in 0..MaxEvalTools},
        answer \in EvalAnswers}

InitEval ==
    /\ doc = MissingDoc
    /\ pc = "ev_fresh"
    /\ mode = "none"
    /\ run_counter = 1
    /\ execution_history = <<>>
    /\ learned_constraints = <<>>
    /\ mistake_patterns = <<>>
    /\ messages \in EvalLogs
    /\ trace = NewTrace(1, messages[1].content)
    /\ in_history = 0
    /\ prompt = NoPrompt
    /\ error = ""
    /\ issued = {1}
    /\ initial_counter = 0
    /\ handed = <<1>>

\* trace = evaluator.evaluate(trace, messages) on the trace create_trace returned
EvalFirst ==
    /\ pc = "ev_fresh"
    /\ trace' = evaluate(trace, messages)
    /\ pc' = "ev_once"
    /\ UNCHANGED <<doc, mode, run_counter, execution_history, learned_constraints,
                   mistake_patterns, in_history, messages, prompt, error, issued,
                   initial_counter, handed>>

\* evaluator.evaluate(trace, messages) again, on the evaluated trace and the same log
EvalAgain ==
    /\ pc = "ev_once"
    /\ trace' = evaluate(trace, messages)
    /\ pc' = "ev_twice"
    /\ UNCHANGED <<doc, mode, run_counter, execution_history, learned_constraints,
                   mistake_patterns, in_history, messages, prompt, error, issued,
                   initial_counter, handed>>

NextEval ==
    \/ EvalFirst
    \/ EvalAgain

SpecEval == InitEval /\ [][NextEval]_vars

-----------------------------------------------------------------------------
(* The evaluator on raw message logs of any shape: every sequence of at most
   MaxLogLen of the messages a log can hold, also ones the graph never produces
   (a result before its invocation, a second result for one id, an invocation
   without a result) *)

MaxLogLen == 4

WeatherCall == [name |-> "check_weather", id |-> CallId(1)]
FlightsCall == [name |-> "search_flights", id |-> CallId(2)]

LogMessages ==
    UNION {{HumanMessage(task) : task \in Tasks},
           {AIMessage("", <<WeatherCall>>),
            AIMessage("", <<FlightsCall>>),
            AIMessage("Let me look that up.", <<WeatherCall, FlightsCall>>),
            ToolMessage("check_weather result", CallId(1)),
            ToolMessage("check_weather result, repeated", CallId(1)),
            ToolMessage("search_flights result", CallId(2)),
            AIMessage(PlanAnswer, <<>>),
            AIMessage(GenericAnswer, <<>>),
            AIMessage("", <<>>)}}

RawLogs == UNION {[1..k -> LogMessages] : k \in 0..MaxLogLen}

InitLog ==
    /\ doc = MissingDoc
    /\ pc = "ev_fresh"
    /\ mode = "none"
    /\ run_counter = 1
    /\ execution_history = <<>>
    /\ learned_constraints = <<>>
    /\ mistake_patterns = <<>>
    /\ messages \in RawLogs
    /\ trace \in {NewTrace(1, task) : task \in Tasks}
    /\ in_history = 0
    /\ prompt = NoPrompt
    /\ error = ""
    /\ issued = {1}
    /\ initial_counter = 0
    /\ handed = <<1>>

SpecLog == InitLog /\ [][NextEval]_vars

-----------------------------------------------------------------------------
(* Properties *)

Running == pc \notin {"stopped", "died"}

AtMostOnePerKey(cs) ==
    \A i, j \in 1..Len(cs) : cs[i].pattern_key = cs[j].pattern_key => i = j

\* a constraint of cs1 and one of cs2 for the same pattern_key have the same text
\* and the same occurrences
AgreeOnKeys(cs1, cs2) ==
    \A i \in 1..Len(cs1) : \A j \in 1..Len(cs2) :
        cs1[i].pattern_key = cs2[j].pattern_key
            => /\ cs1[i].constraint = cs2[j].constraint
               /\ cs1[i].occurrences = cs2[j].occurrences

\* C1: in every state reached by save_trace calls and restarts, the constraint
\* list (in memory and in the document) holds at most one Constraint per
\* pattern_key, and no step changes the text or the occurrences of a Constraint
\* that exists, in memory, in the document, or from the document into memory.
C1_OnePerKeyFrozen ==
    /\ [](/\ AtMostOnePerKey(learned_constraints)
          /\ AtMostOnePerKey(doc.learned_constraints)
          /\ AgreeOnKeys(doc.learned_constraints, learned_constraints))
    /\ [][/\ AgreeOnKeys(learned_constraints, learned_constraints')
          /\ AgreeOnKeys(doc.learned_constraints, doc'.learned_constraints)]_vars

\* C1 witness: save_trace has just returned, the saved trace repeats a pattern that
\* already had its Constraint, and the pattern's count is past the count recorded
C1_Witness ==
    /\ pc = "saved"
    /\ \E i \in 1..Len(learned_constraints) :
          /\ CountOf(mistake_patterns, learned_constraints[i].pattern_key)
                > learned_constraints[i].occurrences
          /\ \E k \in 1..Len(trace.mistakes) :
                PatternKey(trace.mistakes[k]) = learned_constraints[i].pattern_key

\* save_trace has returned: the try block's call, or the handler's call
SaveReturned == pc = "saved" \/ (pc = "loop" /\ error # "")

\* C2: after every save_trace call returns, every pattern_key whose count is at
\* least 2 has a Constraint, whatever mistake reached save_trace (the driver's
\* synthetic mistake included).
C2_EveryRepeatedPatternHasConstraint ==
    SaveReturned =>
        \A i \in 1..Len(mistake_patterns) :
            mistake_patterns[i].count >= Threshold
                => Existing(learned_constraints, mistake_patterns[i].key)

\* C3: whenever the agent was invoked while the store held a learned constraint,
\* the prompt handed to the language model contains every active constraint.
C3_PromptHasEveryConstraint ==
    (pc = "ran" /\ learned_constraints # <<>>)
        => \A c \in Range(get_active_constraints(learned_constraints)) :
                c \in Range(prompt.reminders)

\* C4: a save that takes a pattern_key's count from 1 to 2 (its first occurrence was
\* in an earlier saved trace) starts with no Constraint for it and ends with exactly
\* one, whose text says "(learned from 2 past mistakes)".
C4_SecondOccurrenceLearns ==
    [][\A i \in 1..Len(mistake_patterns') :
          LET key == mistake_patterns'[i].key
          IN  (CountOf(mistake_patterns, key) = 1 /\ mistake_patterns'[i].count = 2)
                => /\ ~Existing(learned_constraints, key)
                   /\ Cardinality({j \in 1..Len(learned_constraints') :
                                      learned_constraints'[j].pattern_key = key}) = 1
                   /\ \A j \in 1..Len(learned_constraints') :
                          learned_constraints'[j].pattern_key = key
                              => learned_constraints'[j].constraint.learned_from = 2
      ]_vars

AllLearnedAtThreshold(cs) ==
    \A i \in 1..Len(cs) :
        /\ cs[i].occurrences = Threshold
        /\ cs[i].constraint.learned_from = Threshold

\* C5: every Constraint, in memory and in the document, has occurrences 2 and the
\* suffix count 2, also after later saves raised its pattern's count.
C5_OccurrencesStayTwo ==
    /\ AllLearnedAtThreshold(learned_constraints)
    /\ AllLearnedAtThreshold(doc.learned_constraints)

\* C5 witness: the document holds a Constraint whose pattern count has grown to 5
C5_Witness ==
    /\ doc.status = "ok"
    /\ \E i \in 1..Len(doc.learned_constraints) :
          CountOf(doc.mistake_patterns, doc.learned_constraints[i].pattern_key) = 5

\* C6: across create_trace, save_trace and restarts, run_counter never decreases
\* and create_trace never returns a run_id it has returned before.
C6_RunIdsNeverReused ==
    [][/\ (pc = "loop" /\ pc' = "created") => trace'.run_id \notin issued
       /\ pc' # "died" => run_counter' >= run_counter
      ]_vars

\* C7: within one lifetime, after N create_trace calls run_counter is the loaded
\* value + N and the returned run_ids are loaded+1 .. loaded+N in call order,
\* however many of the traces were saved.
C7_CounterCountsCreates ==
    /\ run_counter = initial_counter + Len(handed)
    /\ \A i \in 1..Len(handed) : handed[i] = initial_counter + i

\* C7 witness: a store loaded with a counter above 0 has created two traces, the
\* first saved, the second not
C7_Witness ==
    /\ pc = "created"
    /\ initial_counter > 0
    /\ Len(handed) = 2
    /\ \E i \in 1..Len(execution_history) : execution_history[i].run_id = handed[1]
    /\ \A i \in 1..Len(execution_history) : execution_history[i].run_id # handed[2]

\* the document holds a trace of run run_id with a mistake of the driver's handler
DocHasFailedRun(run_id) ==
    /\ doc.status = "ok"
    /\ doc.run_counter >= run_id
    /\ \E i \in 1..Len(doc.execution_history) :
          /\ doc.execution_history[i].run_id = run_id
          /\ \E k \in 1..Len(doc.execution_history[i].mistakes) :
                doc.execution_history[i].mistakes[k].type = EXECUTION_ERROR

\* C8: when the agent invocation of a run raised and the entry point is done with
\* the run (run_demonstration is back at its loop, run_single_task has ended), the
\* document holds a trace of the run with a mistake for the failure and a
\* run_counter that includes the run.
C8_FailedRunIsRecorded ==
    (error = AgentError /\ (pc = "loop" \/ (pc = "died" /\ mode = "single")))
        => DocHasFailedRun(trace.run_id)

\* C9: within a lifetime no step changes a trace that is in history, and save_trace
\* never appends a trace object that history already holds.
C9_SavedTracesImmutable ==
    [][Running
         => /\ Len(execution_history') >= Len(execution_history)
            /\ \A i \in 1..Len(execution_history) :
                  execution_history'[i] = execution_history[i]
            /\ Len(execution_history') > Len(execution_history) => in_history = 0
      ]_vars

SuccessIffNoMistakes(t) == t.success <=> (Len(t.mistakes) = 0)

\* C10: the trace evaluate returned, and every trace in history, has success true
\* exactly when it has no mistake.
C10_SuccessIffNoMistakes ==
    /\ pc = "evaluated" => SuccessIffNoMistakes(trace)
    /\ \A i \in 1..Len(execution_history) : SuccessIffNoMistakes(execution_history[i])

\* the pattern_keys that have a count in memory or in the document
KnownKeys(patterns1, patterns2) ==
    {patterns1[i].key : i \in 1..Len(patterns1)} \cup
    {patterns2[i].key : i \in 1..Len(patterns2)}

CountsNotBelow(later, earlier) ==
    \A key \in KnownKeys(later, earlier) : CountOf(later, key) >= CountOf(earlier, key)

\* a step of Start that constructs the MemoryStore
Restarts == ~Running /\ pc' = "loop"

\* a step in which a save_trace call runs to its end, the write included
SaveCompletes == pc \in {"evaluated", "except"} /\ pc' \in {"saved", "loop"}

\* C11: pattern counts never decrease. Within a lifetime no step lowers a count;
\* a save_trace that completes writes the counts of memory to the document; the
\* counts of a complete document never decrease; and a fresh MemoryStore starts
\* with the counts of the document, those of the last completed save_trace.
C11_CountsNeverDecrease ==
    [][/\ (Running /\ pc' \notin {"stopped", "died"})
            => CountsNotBelow(mistake_patterns', mistake_patterns)
       /\ SaveCompletes
            => /\ doc'.status = "ok"
               /\ doc'.mistake_patterns = mistake_patterns'
       /\ (doc.status = "ok" /\ doc'.status = "ok")
            => CountsNotBelow(doc'.mistake_patterns, doc.mistake_patterns)
       /\ Restarts
            => \A key \in KnownKeys(mistake_patterns', doc.mistake_patterns) :
                  CountOf(mistake_patterns', key) = CountOf(doc.mistake_patterns, key)
      ]_vars

\* C11 witness: a MemoryStore has just been constructed from a document with a
\* count of 2 or more
C11_Witness ==
    /\ pc = "loop"
    /\ handed = <<>>
    /\ initial_counter > 0
    /\ \E i \in 1..Len(mistake_patterns) : mistake_patterns[i].count >= 2

\* how many mistakes of trace t have the pattern_key key
Occurrences(t, key) ==
    Cardinality({k \in 1..Len(t.mistakes) : PatternKey(t.mistakes[k]) = key})

TraceKeys(t) == {PatternKey(t.mistakes[k]) : k \in 1..Len(t.mistakes)}

\* a step that runs save_trace(trace'), whether or not its write raises
SaveCalled == pc \in {"evaluated", "except"} /\ pc' # "stopped"

\* C12: save_trace(trace) appends exactly one entry, the trace, to history and
\* raises each pattern count by the number of the trace's mistakes with that key,
\* leaving the other counts as they were; a trace without mistakes changes no
\* count and creates no constraint.
C12_SaveTraceEffect ==
    [][SaveCalled
         => /\ Len(execution_history') = Len(execution_history) + 1
            /\ execution_history'[Len(execution_history')] = trace'
            /\ \A key \in KnownKeys(mistake_patterns', mistake_patterns) \cup TraceKeys(trace') :
                  CountOf(mistake_patterns', key)
                      = CountOf(mistake_patterns, key) + Occurrences(trace', key)
            /\ trace'.mistakes = <<>>
                  => /\ mistake_patterns' = mistake_patterns
                     /\ learned_constraints' = learned_constraints
      ]_vars

\* C12 witness: save_trace has returned for a trace with several mistakes, one of
\* them seen before, while another pattern that the trace does not have keeps its count
C12_Witness ==
    /\ pc = "saved"
    /\ Len(trace.mistakes) >= 2
    /\ \E i \in 1..Len(mistake_patterns) :
          /\ mistake_patterns[i].key \in TraceKeys(trace)
          /\ mistake_patterns[i].count >= 2
    /\ \E i \in 1..Len(mistake_patterns) :
          mistake_patterns[i].key \notin TraceKeys(trace)

\* the logical state of the running MemoryStore, as a fresh store would hold it
StoreNow ==
    [run_counter |-> run_counter,
     learned_constraints |-> learned_constraints,
     mistake_patterns |-> mistake_patterns,
     execution_history |-> LastN(execution_history, HistoryLimit)]

\* C13: loading the document a just-completed save_trace wrote gives a store with
\* the same run_counter, pattern counts and constraint list (get_active_constraints
\* equal in content and order) and with the most recent 50 saved traces as history.
C13_LoadAfterSaveRoundTrip ==
    SaveReturned
        => /\ ~LoadRaises(doc)
           /\ Loaded(doc) = StoreNow
           /\ get_active_constraints(Loaded(doc).learned_constraints)
                  = get_active_constraints(learned_constraints)

\* C13 witness: a save_trace has completed in a store that holds more than 50 traces,
\* a successful one and one with mistakes among the last 50, and learned constraints
C13_Witness ==
    /\ SaveReturned
    /\ Len(execution_history) > HistoryLimit
    /\ learned_constraints # <<>>
    /\ \E i \in 1..Len(doc.execution_history) : doc.execution_history[i].success
    /\ \E i \in 1..Len(doc.execution_history) : doc.execution_history[i].mistakes # <<>>

IsPrefix(a, b) == Len(a) <= Len(b) /\ SubSeq(b, 1, Len(a)) = a

\* the places where get_active_constraints is called: agent.py:214 in agent.run and
\* main.py:100 after save_trace
ConstraintsRead == pc \in {"created", "saved"}

\* the position of key in the insertion order of patterns
PatternIndex(patterns, key) ==
    CHOOSE i \in 1..Len(patterns) : patterns[i].key = key

\* C14: the sequence get_active_constraints returns only grows by appending, across
\* save_trace calls and restarts: what it returns is what a load of the document
\* gives, the list of the running store and the list in the document are only ever
\* extended at the end, a restart reads the document's list, and the constraints a
\* save_trace adds are those of the patterns that reached the threshold in that
\* call, in the order of those patterns.
C14_ConstraintsOnlyAppend ==
    /\ [](ConstraintsRead
            => /\ ~LoadRaises(doc)
               /\ get_active_constraints(learned_constraints)
                     = [i \in 1..Len(Loaded(doc).learned_constraints) |->
                            Loaded(doc).learned_constraints[i].constraint])
    /\ []((Running /\ doc.status = "ok")
            => IsPrefix(doc.learned_constraints, learned_constraints))
    /\ [][/\ (Running /\ Running')
               => IsPrefix(get_active_constraints(learned_constraints),
                           get_active_constraints(learned_constraints'))
          /\ (doc.status = "ok" /\ doc'.status = "ok")
               => IsPrefix(doc.learned_constraints, doc'.learned_constraints)
          /\ Restarts => learned_constraints' = Loaded(doc).learned_constraints
          /\ (Running /\ Running')
               => /\ IsPrefix(learned_constraints, learned_constraints')
                  /\ \A i \in (Len(learned_constraints) + 1)..Len(learned_constraints') :
                        /\ CountOf(mistake_patterns, learned_constraints'[i].pattern_key)
                              < Threshold
                        /\ CountOf(mistake_patterns', learned_constraints'[i].pattern_key)
                              >= Threshold
                        /\ \A j \in (Len(learned_constraints) + 1)..(i - 1) :
                              PatternIndex(mistake_patterns', learned_constraints'[j].pattern_key)
                                < PatternIndex(mistake_patterns', learned_constraints'[i].pattern_key)
         ]_vars

\* C14 witness: in a process that loaded a constraint from the document, a
\* save_trace has appended a second one, for a pattern of the saved trace, after it
C14_Witness ==
    /\ pc = "saved"
    /\ initial_counter > 0
    /\ Len(learned_constraints) >= 2
    /\ IsPrefix(<<learned_constraints[1]>>, Loaded(doc).learned_constraints)
    /\ learned_constraints[1].pattern_key \notin TraceKeys(trace)
    /\ learned_constraints[Len(learned_constraints)].pattern_key \in TraceKeys(trace)
    /\ learned_constraints[Len(learned_constraints)].occurrences
          = CountOf(mistake_patterns, learned_constraints[Len(learned_constraints)].pattern_key)

Min(a, b) == IF a <= b THEN a ELSE b

\* the records of the n most recently appended traces of history, oldest first
MostRecent(history, n) ==
    [i \in 1..Min(n, Len(history)) |->
        to_dict(history[Len(history) - Min(n, Len(history)) + i])]

\* a step in which a save_trace call wrote the document
SaveWrites == SaveCalled /\ pc' \in {"saved", "loop"}

\* C15: the document's execution_history never holds more than 50 traces, they are
\* in save order, after a completed save_trace they are the most recently saved
\* traces of the store, the last of them the trace just saved, and a full
\* document drops its oldest entries for the new ones.
C15_DocumentKeepsLastFifty ==
    /\ [](doc.status = "ok"
            => /\ Len(doc.execution_history) <= HistoryLimit
               /\ \A i, j \in 1..Len(doc.execution_history) :
                     i <= j => doc.execution_history[i].run_id
                                  <= doc.execution_history[j].run_id)
    /\ [](SaveReturned
            => doc.execution_history = MostRecent(execution_history, HistoryLimit))
    /\ [][SaveWrites
            => /\ doc'.status = "ok"
               /\ doc'.execution_history # <<>>
               /\ doc'.execution_history[Len(doc'.execution_history)] = to_dict(trace')
               /\ (doc.status = "ok" /\ Len(doc.execution_history) = HistoryLimit)
                    => \E k \in 1..2 :
                          /\ \A i \in 1..(HistoryLimit - k) :
                                doc'.execution_history[i].run_id
                                    = doc.execution_history[i + k].run_id
                          /\ \A i \in (HistoryLimit - k + 1)..HistoryLimit :
                                doc'.execution_history[i] = to_dict(trace')
         ]_vars

\* C15 witness: more than 50 traces have been saved and the document that the last
\* save_trace wrote holds 50 of them, the first run no longer among them
C15_Witness ==
    /\ SaveReturned
    /\ Len(execution_history) > HistoryLimit
    /\ doc.status = "ok"
    /\ Len(doc.execution_history) = HistoryLimit
    /\ doc.execution_history[1].run_id > 1
    /\ doc.execution_history[HistoryLimit] = to_dict(trace)

\* a step in which a process constructs its MemoryStore (the only step of a
\* process that is not running)
Constructs == ~Running /\ pc' # pc

\* C16: constructing a MemoryStore on a missing or unreadable document does not
\* fail and reports no error: the store starts with run_counter 0 and empty
\* history, patterns and constraints.
C16_UnreadableDocumentIsNoPriorState ==
    [][(Constructs /\ doc.status \in {"missing", "partial"})
         => /\ pc' = "loop"
            /\ error' = ""
            /\ run_counter' = 0
            /\ execution_history' = <<>>
            /\ mistake_patterns' = <<>>
            /\ learned_constraints' = <<>>
      ]_vars

\* C17: a load never observes a partially written document, also after a save
\* that failed part-way: the store it builds is that of the last completely
\* written document, or the empty one when none was ever written.
C17_LoadNeverSeesPartialWrite ==
    [][Constructs
         => /\ doc.status \in {"missing", "ok"}
            /\ pc' = "loop"
            /\ run_counter' = Loaded(doc).run_counter
            /\ execution_history' = Loaded(doc).execution_history
            /\ mistake_patterns' = Loaded(doc).mistake_patterns
            /\ learned_constraints' = Loaded(doc).learned_constraints
      ]_vars

\* C18: evaluate called a second time with the same message log on the evaluated
\* trace leaves the trace's mistakes (number, kinds, descriptions, steps) as they
\* were after the first evaluation.
C18_EvaluateTwiceSameMistakes ==
    [][(pc = "ev_once" /\ pc' = "ev_twice") => trace'.mistakes = trace.mistakes]_vars

\* the fields of the running MemoryStore
store == <<run_counter, execution_history, learned_constraints, mistake_patterns>>

\* C19: only save_trace changes the document. create_trace adds one to the
\* in-memory run_counter, which the new trace carries at once while the document
\* still has the old value, and changes nothing else; the steps that call
\* get_active_constraints (agent.run, the prints after save_trace) and
\* get_statistics (print_summary at the end of the demonstration) change neither
\* the store nor the document.
C19_OnlySaveTraceWrites ==
    [][/\ doc' # doc => SaveCalled
       /\ (pc = "loop" /\ pc' = "created")
            => /\ run_counter' = run_counter + 1
               /\ trace'.run_id = run_counter'
               /\ UNCHANGED <<doc, execution_history, learned_constraints,
                              mistake_patterns>>
               /\ doc.status = "ok" => doc.run_counter < run_counter'
       /\ (ConstraintsRead /\ pc' # pc) => UNCHANGED <<store, doc>>
       /\ (pc = "loop" /\ pc' = "stopped") => UNCHANGED <<store, doc>>
      ]_vars

\* C19 witness: create_trace has returned run 2 in a process whose document, written
\* by the save_trace of run 1, still has run_counter 1
C19_Witness ==
    /\ pc = "created"
    /\ doc.status = "ok"
    /\ doc.run_counter = 1
    /\ run_counter = 2
    /\ trace.run_id = 2
    /\ Len(handed) = 2

IsWrongSequence(m) == m.type = WRONG_SEQUENCE

\* the 1-indexed positions of name in the tool-name sequence used
Positions(used, name) == {i \in 1..Len(used) : used[i] = name}

Earliest(S) == CHOOSE i \in S : \A j \in S : i <= j

\* the <<description, step>> pairs the three sequence rules ask for
RuleHotelsBeforeFlights(used) ==
    IF /\ Positions(used, "recommend_hotels") # {}
       /\ Positions(used, "search_flights") # {}
       /\ Earliest(Positions(used, "recommend_hotels"))
             < Earliest(Positions(used, "search_flights"))
    THEN {<<"Hotels were recommended before searching for flights",
            Earliest(Positions(used, "recommend_hotels"))>>}
    ELSE {}

RuleItineraryNotLast(used) ==
    IF /\ Positions(used, "create_itinerary") # {}
       /\ Earliest(Positions(used, "create_itinerary")) # Len(used)
    THEN {<<"Itinerary was created before completing other planning steps",
            Earliest(Positions(used, "create_itinerary"))>>}
    ELSE {}

RuleWeatherNotFirst(used) ==
    IF /\ Positions(used, "check_weather") # {}
       /\ Earliest(Positions(used, "check_weather")) # 1
    THEN {<<"Weather should be checked before other tools",
            Earliest(Positions(used, "check_weather"))>>}
    ELSE {}

ScenarioB == <<"recommend_hotels", "search_flights">>
ScenarioC == <<"search_flights", "check_weather", "recommend_hotels", "create_itinerary">>

\* the wrong_sequence mistakes of t as <<description, step>> pairs
WrongSequencePairs(t) ==
    {<<SelectSeq(t.mistakes, IsWrongSequence)[i].description,
       SelectSeq(t.mistakes, IsWrongSequence)[i].step>> :
        i \in 1..Len(SelectSeq(t.mistakes, IsWrongSequence))}

\* C20: for every sequence of tool names of a run, the wrong_sequence mistakes of
\* evaluate are exactly those of the three rules, each at most once, with the
\* 1-indexed position of the first occurrence as step: hotels before flights,
\* itinerary not last, weather not first. [recommend_hotels, search_flights] gives
\* one at step 1; [search_flights, check_weather, recommend_hotels,
\* create_itinerary] gives one at step 2.
C20_WrongSequenceIsTheThreeRules ==
    pc = "ev_once"
        => /\ WrongSequencePairs(trace)
                = RuleHotelsBeforeFlights(ToolsUsed(trace))
                    \cup RuleItineraryNotLast(ToolsUsed(trace))
                    \cup RuleWeatherNotFirst(ToolsUsed(trace))
           /\ Len(SelectSeq(trace.mistakes, IsWrongSequence))
                = Cardinality(WrongSequencePairs(trace))
           /\ ToolsUsed(trace) = ScenarioB
                => SelectSeq(trace.mistakes, IsWrongSequence)
                     = <<[type |-> WRONG_SEQUENCE,
                          description |-> "Hotels were recommended before searching for flights",
                          step |-> 1]>>
           /\ ToolsUsed(trace) = ScenarioC
                => SelectSeq(trace.mistakes, IsWrongSequence)
                     = <<[type |-> WRONG_SEQUENCE,
                          description |-> "Weather should be checked before other tools",
                          step |-> 2]>>

\* C20 witness: the evaluation of a run whose tools are those of the second
\* scenario has recorded a wrong_sequence mistake
C20_Witness ==
    /\ pc = "ev_once"
    /\ ToolsUsed(trace) = ScenarioC
    /\ SelectSeq(trace.mistakes, IsWrongSequence) # <<>>

IsTooEarly(m) == m.type = TOO_EARLY_ANSWER
IsMissingRequired(m) == m.type = MISSING_REQUIRED_TOOL

\* the tool invocations of a raw log, as <<message index, index in the message>>
Invocations(msgs) ==
    UNION {{<<i, k>> : k \in 1..Len(msgs[i].tool_calls)} :
              i \in {j \in 1..Len(msgs) : msgs[j].type = "ai"}}

\* an assistant message with text and no tool invocation
LogHasFinalAnswer(msgs) ==
    \E i \in 1..Len(msgs) :
        msgs[i].type = "ai" /\ msgs[i].content # "" /\ msgs[i].tool_calls = <<>>

ScenarioALogs ==
    {<<HumanMessage(task),
       AIMessage("", <<WeatherCall>>),
       ToolMessage("check_weather result", CallId(1)),
       AIMessage(PlanAnswer, <<>>)>> : task \in Tasks}

\* C21: for every raw log, evaluate records a too_early_answer mistake exactly when
\* the log has a non-empty final answer and fewer than 2 tool calls, once and with
\* the number of tool calls as step; the log [task, assistant invoking
\* check_weather, its result, final text] gives 1 tool call, a too_early_answer
\* mistake and no missing_required_tool mistake.
C21_TooEarlyExactlyWhenFewCalls ==
    pc = "ev_once"
        => /\ Len(trace.tool_calls) = Cardinality(Invocations(messages))
           /\ (LogHasFinalAnswer(messages) /\ Cardinality(Invocations(messages)) < 2)
                => /\ Len(SelectSeq(trace.mistakes, IsTooEarly)) = 1
                   /\ SelectSeq(trace.mistakes, IsTooEarly)[1].step
                         = Cardinality(Invocations(messages))
           /\ ~(LogHasFinalAnswer(messages) /\ Cardinality(Invocations(messages)) < 2)
                => SelectSeq(trace.mistakes, IsTooEarly) = <<>>
           /\ messages \in ScenarioALogs
                => /\ Len(trace.tool_calls) = 1
                   /\ SelectSeq(trace.mistakes, IsTooEarly) # <<>>
                   /\ SelectSeq(trace.mistakes, IsMissingRequired) = <<>>

\* C21 witness: the log of the first scenario has been evaluated
C21_Witness ==
    /\ pc = "ev_once"
    /\ messages \in ScenarioALogs
    /\ Len(trace.mistakes) = 1
    /\ trace.mistakes[1].step = 1

\* <<i, k>> comes before <<j, l>> in the order _extract_tool_calls visits them
VisitedBefore(a, b) == a[1] < b[1] \/ (a[1] = b[1] /\ a[2] < b[2])

\* the n-th invocation of the log in that order
InvocationAt(msgs, n) ==
    CHOOSE a \in Invocations(msgs) :
        Cardinality({b \in Invocations(msgs) : VisitedBefore(b, a)}) = n - 1

\* the content of the first tool-result message after message i that carries id,
\* "" when there is none
FirstLaterResult(msgs, i, id) ==
    LET later == {j \in (i + 1)..Len(msgs) :
                      msgs[j].type = "tool" /\ msgs[j].tool_call_id = id}
    IN  IF later = {} THEN ""
        ELSE msgs[CHOOSE j \in later : \A l \in later : j <= l].content

\* C22: the output of every extracted tool call is the content of the first
\* tool-result message that comes after the invoking assistant message and carries
\* the invocation's id, and "" when there is no such later message; a matching
\* result placed earlier in the log is not used.
C22_OutputIsFirstLaterResult ==
    pc = "ev_once"
        => \A n \in 1..Len(trace.tool_calls) :
              trace.tool_calls[n].output
                  = FirstLaterResult(
                        messages,
                        InvocationAt(messages, n)[1],
                        messages[InvocationAt(messages, n)[1]]
                            .tool_calls[InvocationAt(messages, n)[2]].id)

IsIgnoredOutput(m) == m.type = IGNORED_TOOL_OUTPUT

\* the evaluated trace with its tool calls and final answer alone
Extracted(t) == [t EXCEPT !.mistakes = <<>>, !.success = FALSE]

\* the names of the tools the log invokes
InvokedNames(msgs) ==
    {msgs[a[1]].tool_calls[a[2]].name : a \in Invocations(msgs)}

\* C23: in evaluate on a fresh trace no check suppresses another: the mistakes are
\* those of the missing-required-tool check, then the sequence check, then the
\* early-termination check, then the output-usage check, each applied to the
\* extracted tool calls and final answer alone; missing_required_tool, without a
\* step, is recorded exactly when no invocation is named check_weather.
C23_ChecksFireIndependently ==
    pc = "ev_once"
        => /\ trace.mistakes
                = _check_missing_required_tools(Extracted(trace)).mistakes
                    \o _check_tool_sequence(Extracted(trace)).mistakes
                    \o _check_early_termination(Extracted(trace)).mistakes
                    \o _check_tool_output_usage(Extracted(trace)).mistakes
           /\ "check_weather" \notin InvokedNames(messages)
                => /\ Len(SelectSeq(trace.mistakes, IsMissingRequired)) = 1
                   /\ SelectSeq(trace.mistakes, IsMissingRequired)[1].step = NoStep
           /\ "check_weather" \in InvokedNames(messages)
                => SelectSeq(trace.mistakes, IsMissingRequired) = <<>>

\* C23 witness: one evaluation has recorded a missing_required_tool, a
\* wrong_sequence and an ignored_tool_output mistake
C23_Witness ==
    /\ pc = "ev_once"
    /\ SelectSeq(trace.mistakes, IsMissingRequired) # <<>>
    /\ SelectSeq(trace.mistakes, IsWrongSequence) # <<>>
    /\ SelectSeq(trace.mistakes, IsIgnoredOutput) # <<>>

\* C24: the texts get_active_constraints returns are pairwise distinct: two
\* different pattern_keys never give the same constraint text.
C24_ConstraintTextsDistinct ==
    \A i, j \in 1..Len(get_active_constraints(learned_constraints)) :
        i # j => get_active_constraints(learned_constraints)[i]
                    # get_active_constraints(learned_constraints)[j]

\* sum(stats["mistake_patterns"].values()), from the k-th pattern on
RECURSIVE SumCounts(_, _)
SumCounts(patterns, k) ==
    IF k > Len(patterns) THEN 0 ELSE patterns[k].count + SumCounts(patterns, k + 1)

\* C25: after any save_trace calls and restarts, get_statistics reports
\* total_mistakes, the number of mistakes over the traces in history, equal to the
\* sum of its mistake_patterns values, also when more than 50 traces were saved
\* and the store was loaded again.
C25_TotalMistakesIsSumOfCounts ==
    get_statistics([run_counter |-> run_counter,
                    learned_constraints |-> learned_constraints,
                    mistake_patterns |-> mistake_patterns,
                    execution_history |-> execution_history]).total_mistakes
        = SumCounts(get_statistics([run_counter |-> run_counter,
                                    learned_constraints |-> learned_constraints,
                                    mistake_patterns |-> mistake_patterns,
                                    execution_history |-> execution_history])
                        .mistake_patterns, 1)

\* every constraint of constraints has its pattern in patterns, counted at least
\* as often as the constraint's occurrences, which is at least 2
BackedBy(constraints, patterns) ==
    \A i \in 1..Len(constraints) :
        /\ HasPattern(patterns, constraints[i].pattern_key)
        /\ CountOf(patterns, constraints[i].pattern_key) >= constraints[i].occurrences
        /\ constraints[i].occurrences >= 2

\* C26: in every state reached by save_trace calls and restarts each stored
\* constraint is backed by its pattern, in the running store and in the document:
\* its pattern_key is a key of mistake_patterns whose count is at least the
\* constraint's occurrences, which is at least 2.
C26_ConstraintsBackedByPatterns ==
    /\ BackedBy(learned_constraints, mistake_patterns)
    /\ doc.status = "ok" => BackedBy(doc.learned_constraints, doc.mistake_patterns)

\* C26 witness: a store loaded from the document holds a constraint created at 2
\* occurrences whose pattern has since been counted a third time
C26_Witness ==
    /\ Running
    /\ initial_counter > 0
    /\ \E i \in 1..Len(learned_constraints) :
          /\ learned_constraints[i].occurrences = 2
          /\ CountOf(mistake_patterns, learned_constraints[i].pattern_key) >= 3
          /\ \E j \in 1..Len(Loaded(doc).learned_constraints) :
                Loaded(doc).learned_constraints[j] = learned_constraints[i]

====
